---- MODULE Spec2Model ----
(***************************************************************************)
(* The Phoenix shell: one line at a time goes through the lexer            *)
(* (input_lexer.rs), the whitespace filter of main (main.rs), the parser   *)
(* (input_parser.rs) and the engine (engine.rs).                           *)
(*                                                                         *)
(* Bytes are modelled as one-character strings, the source buffer as a     *)
(* sequence of them.  Indices are 0-based as in the Rust source: the byte  *)
(* at index i of a buffer s is s[i + 1].                                   *)
(***************************************************************************)
EXTENDS Integers, Sequences, FiniteSets, TLC

(***************************************************************************)
(* Bounds of the model.                                                    *)
(***************************************************************************)
\* a raw line is the concatenation of at most MaxPieces members of Pieces
MaxPieces == 2
\* a command line is the concatenation of at most MaxStmts statement texts
MaxStmts == 3
\* the collect of main is followed for at most MaxTokens tokens when the
\* lexer never returns None
MaxTokens == 3

(***************************************************************************)
(* Characters.                                                             *)
(***************************************************************************)
\* the two sentinels of InputLexer: byte 0 (new) and byte 3 (next_char)
NUL == "0x00"
ETX == "0x03"

\* char::is_alphabetic, on the bytes of the model's alphabet
is_alphabetic(c) == c \in {"a", "c", "d", "e", "h", "i", "l", "o", "s", "t", "x"}

\* char::is_numeric
is_numeric(c) == c \in {"1"}

\* char::is_alphanumeric
is_alphanumeric(c) == is_alphabetic(c) \/ is_numeric(c)

\* char::is_whitespace
is_whitespace(c) == c \in {" ", "\t", "\n", "\r"}

\* #[cfg(target_os)] const SLASH
SLASH(os) == IF os = "windows" THEN "\\" ELSE "/"

\* #[cfg(target_os)] const IDENT_EXCEPT
IDENT_EXCEPT(os) == IF os = "windows" THEN {"/", "?", "-", "."} ELSE {"-", "."}

\* #[cfg(target_os)] fn path_cond
path_cond(os, c, peek) ==
    IF os = "windows"
    THEN c = "." \/ (is_alphabetic(c) /\ peek = ":")
    ELSE c = "." \/ c = "/"

(***************************************************************************)
(* Tokens.                                                                 *)
(***************************************************************************)
\* Token::new
Token(typ, start, end) == [typ |-> typ, start |-> start, end |-> end]

\* macro default_token!
default_token(typ) == Token(typ, 0, 0)

\* the slice source[start .. end] of a buffer (0-based, half-open); Rust panics
\* when the range is not inside the buffer, the model yields the part inside
Slice(source, start, end) == SubSeq(source, start + 1, end)

(***************************************************************************)
(* The lexer.  A lexer value is the struct InputLexer.                     *)
(***************************************************************************)
\* source.get(i).unwrap_or(dflt)
GetOr(source, i, dflt) == IF i < Len(source) THEN source[i + 1] ELSE dflt

\* InputLexer::new, lines 56-57: on Windows the last two bytes are popped
Popped(os, source) ==
    IF os = "windows" THEN SubSeq(source, 1, Len(source) - 2) ELSE source

\* InputLexer::new, line 57: pop().unwrap() panics on a buffer that runs out
NewPanics(os, source) == os = "windows" /\ Len(source) < 2

\* InputLexer::new
InputLexer_new(os, source) ==
    [source |-> Popped(os, source),
     cur_char |-> GetOr(Popped(os, source), 0, NUL),
     peek_char |-> GetOr(Popped(os, source), 1, NUL),
     index |-> 0]

\* InputLexer::next_char
next_char(lx) ==
    [lx EXCEPT !.index = lx.index + 1,
               !.cur_char = GetOr(lx.source, lx.index + 1, ETX),
               !.peek_char = GetOr(lx.source, lx.index + 2, ETX)]

\* results of next_token: Some(token), None (with or without a diagnostic),
\* or a panic (unreachable!, unimplemented!)
NoReport == [msg |-> "none", start |-> 0, end |-> 0]
Report(msg, start, end) == [msg |-> msg, start |-> start, end |-> end]
Some(tok, lx) == [out |-> "Some", token |-> tok, lexer |-> lx, report |-> NoReport]
None(lx, rep) == [out |-> "None", token |-> default_token("EOF"), lexer |-> lx, report |-> rep]
Panic(lx) == [out |-> "Panic", token |-> default_token("EOF"), lexer |-> lx, report |-> NoReport]

\* while self.cur_char.is_alphanumeric() || IDENT_EXCEPT.contains(&self.cur_char)
RECURSIVE SkipIdent(_, _)
SkipIdent(os, lx) ==
    IF is_alphanumeric(lx.cur_char) \/ lx.cur_char \in IDENT_EXCEPT(os)
    THEN SkipIdent(os, next_char(lx))
    ELSE lx

\* while self.cur_char.is_numeric()
RECURSIVE SkipNumber(_)
SkipNumber(lx) ==
    IF is_numeric(lx.cur_char) THEN SkipNumber(next_char(lx)) ELSE lx

\* while self.cur_char.is_alphanumeric() || self.peek_char == SLASH
RECURSIVE SkipForward(_, _)
SkipForward(os, lx) ==
    IF is_alphanumeric(lx.cur_char) \/ lx.peek_char = SLASH(os)
    THEN SkipForward(os, next_char(lx))
    ELSE lx

\* while self.cur_char.is_alphanumeric() || self.cur_char == SLASH
RECURSIVE SkipPath(_, _)
SkipPath(os, lx) ==
    IF is_alphanumeric(lx.cur_char) \/ lx.cur_char = SLASH(os)
    THEN SkipPath(os, next_char(lx))
    ELSE lx

\* the loop of the String arm: the lexer after the loop and the flag closed
RECURSIVE SkipString(_, _)
SkipString(lx, quote_char) ==
    IF lx.index < Len(lx.source)
    THEN IF lx.cur_char = "\\"
         THEN SkipString(next_char(next_char(lx)), quote_char)
         ELSE IF lx.cur_char = quote_char
              THEN [lexer |-> next_char(lx), closed |-> TRUE]
              ELSE SkipString(next_char(lx), quote_char)
    ELSE [lexer |-> lx, closed |-> FALSE]

\* the Identifier arm of next_token
LexIdentifier(os, lx) ==
    LET after == SkipIdent(os, lx)
        start == lx.index
        end == after.index
    IN  IF \E i \in start .. end - 1 : lx.source[i + 1] = "."
        THEN Some(Token("Path", start, end), after)
        ELSE Some(Token("Identifier", start, end), after)

\* the Number arm of next_token
LexNumber(lx) ==
    LET after == SkipNumber(lx)
    IN  Some(Token("Number", lx.index, after.index), after)

\* the arm '.' of the Path arm, peek_char == SLASH
LexRelativeForward(os, lx) ==
    LET l1 == next_char(lx)
    IN  IF l1.cur_char # SLASH(os)
        THEN None(l1, Report("Invalid expression", l1.index, l1.index + 1))
        ELSE LET after == SkipForward(os, next_char(l1))
             IN  Some(Token("Path", lx.index, after.index), after)

\* the arm '.' of the Path arm, peek_char == '.'
LexRelativeBackward(os, lx) ==
    LET l1 == next_char(lx)
        l2 == next_char(l1)
    IN  IF l1.cur_char # "."
        THEN None(l1, Report("Invalid expression", l1.index, l1.index + 1))
        ELSE IF l2.cur_char # SLASH(os)
             THEN None(l2, Report("Invalid expression", l2.index, l2.index + 1))
             ELSE LET after == SkipPath(os, next_char(l2))
                  IN  Some(Token("Path", lx.index, after.index), after)

\* the arm '.' of the Path arm, neither: malformed relative path
LexRelativeError(lx) ==
    LET error_offset == IF Len(lx.source) = 1 THEN 1 ELSE 2
    IN  None(lx, Report("Unexpected end of path", lx.index, lx.index + error_offset))

\* the full-path arm of the Path arm; the two expect_char! are Windows only
LexFullPath(os, lx) ==
    LET l1 == next_char(lx)
        l2 == next_char(l1)
    IN  IF os = "windows"
        THEN IF l1.cur_char # ":"
             THEN None(l1, Report("Invalid expression", l1.index, l1.index + 1))
             ELSE IF l2.cur_char # SLASH(os)
                  THEN None(l2, Report("Invalid expression", l2.index, l2.index + 1))
                  ELSE LET after == SkipPath(os, next_char(l2))
                       IN  Some(Token("Path", lx.index, after.index), after)
        ELSE LET after == SkipPath(os, l1)
             IN  Some(Token("Path", lx.index, after.index), after)

\* the Path arm of next_token
LexPath(os, lx) ==
    LET c == lx.cur_char
    IN  IF c = "."
        THEN IF lx.peek_char = SLASH(os) THEN LexRelativeForward(os, lx)
             ELSE IF lx.peek_char = "." THEN LexRelativeBackward(os, lx)
             ELSE LexRelativeError(lx)
        ELSE IF (is_alphabetic(c) /\ lx.peek_char = ":") \/ c = SLASH(os)
             THEN LexFullPath(os, lx)
             ELSE Panic(lx)

\* the String arm of next_token
LexString(lx) ==
    LET quote_char == lx.cur_char
        start == lx.index
        r == SkipString(next_char(lx), quote_char)
    IN  IF ~r.closed
        THEN None(r.lexer, Report("Unexpected termination of string", start, r.lexer.index - 1))
        ELSE Some(Token("String", start, r.lexer.index), r.lexer)

\* the arms '|', '<', '>', '&' of next_token
LexOperator(typ, lx) ==
    LET after == next_char(lx)
    IN  Some(Token(typ, after.index - 1, after.index), after)

\* the Whitespace arm of next_token
LexWhitespace(lx) == Some(default_token("Whitespace"), next_char(lx))

\* InputLexer::next_token
next_token(os, lx) ==
    LET c == lx.cur_char
    IN  IF (is_alphabetic(c) /\ lx.peek_char # ":") \/ c \in IDENT_EXCEPT(os)
            THEN LexIdentifier(os, lx)
        ELSE IF is_numeric(c) THEN LexNumber(lx)
        ELSE IF path_cond(os, c, lx.peek_char) THEN LexPath(os, lx)
        ELSE IF c \in {"\"", "'"} THEN LexString(lx)
        ELSE IF c = "|" THEN LexOperator("Pipe", lx)
        ELSE IF c = "<" THEN LexOperator("RedirIn", lx)
        ELSE IF c = ">" THEN LexOperator("RedirOut", lx)
        ELSE IF c = "&" THEN LexOperator("And", lx)
        ELSE IF is_whitespace(c) THEN LexWhitespace(lx)
        ELSE IF c = NUL THEN Some(default_token("EOF"), lx)
        ELSE IF c = ETX THEN None(lx, NoReport)
        ELSE Panic(lx)

(***************************************************************************)
(* The parser.  A parser value is the struct InputParser without the       *)
(* source text, which only the diagnostics read.                           *)
(***************************************************************************)
\* StreamStrategy; the span of the file path is kept in start, end
Inherit == [kind |-> "Inherit", start |-> 0, end |-> 0]
PipeToStdin == [kind |-> "PipeToStdin", start |-> 0, end |-> 0]
PipeFromFile(tok) == [kind |-> "PipeFromFile", start |-> tok.start, end |-> tok.end]
PipeToFile(tok) == [kind |-> "PipeToFile", start |-> tok.start, end |-> tok.end]

\* a span start .. end
Range(start, end) == [start |-> start, end |-> end]

\* Spanned::new(Program::new(program, argv, stdin, stdout), span)
Program(program, argv, stdin, stdout, span) ==
    [program |-> program, argv |-> argv, stdin |-> stdin, stdout |-> stdout, span |-> span]

\* InputParser::new
InputParser_new(tokens) == [tokens |-> tokens, len |-> Len(tokens), index |-> 0]

\* InputParser::next_token: the token and the parser after the call
parser_next_token(p) ==
    IF p.index >= p.len
    THEN [token |-> default_token("EOF"), parser |-> p]
    ELSE [token |-> p.tokens[p.index + 1], parser |-> [p EXCEPT !.index = p.index + 1]]

\* InputParser::expect_token: ok is FALSE when the diagnostic is printed
expect_token(p, typ) ==
    LET n == parser_next_token(p)
    IN  [ok |-> n.token.typ \in typ, token |-> n.token, parser |-> n.parser]

\* Terminators with Pipe forgotten: a pipe is taken for an argument
Terminators_WithoutPipe == {"EOF", "And", "RedirIn", "RedirOut"}

\* the tokens that end the argument loop of process_command
Terminators == {"EOF", "And", "Pipe", "RedirIn", "RedirOut"}

\* the argument loop of process_command: the spans pushed to argv, the first
\* token of Terminators and the parser after it
RECURSIVE CollectArgv(_, _)
CollectArgv(p, argv) ==
    LET n == parser_next_token(p)
    IN  IF n.token.typ \notin Terminators
        THEN CollectArgv(n.parser, Append(argv, Range(n.token.start, n.token.end)))
        ELSE [argv |-> argv, token |-> n.token, parser |-> n.parser]

\* results of process_command
NoStmt == Program(Range(0, 0), <<>>, Inherit, Inherit, Range(0, 0))
ParsedStmt(stmt, p) == [out |-> "Some", stmt |-> stmt, parser |-> p, report |-> NoReport]
ParsedNone(p, rep) == [out |-> "None", stmt |-> NoStmt, parser |-> p, report |-> rep]

\* the match on the terminator of process_command, after the argument loop
Terminate(cmd, a) ==
    LET program == Range(cmd.start, cmd.end)
        token == a.token
    IN  CASE token.typ = "Pipe" ->
               ParsedStmt(Program(program, a.argv, Inherit, PipeToStdin,
                                  Range(cmd.start, token.end)), a.parser)
          [] token.typ = "RedirIn" ->
               LET f == expect_token(a.parser, {"Path"})
               IN  IF ~f.ok
                   THEN ParsedNone(f.parser, Report("Invalid command", f.token.start, f.token.end))
                   ELSE ParsedStmt(Program(program, a.argv, PipeFromFile(f.token), Inherit,
                                           Range(cmd.start, token.end)), f.parser)
          [] token.typ = "RedirOut" ->
               LET f == expect_token(a.parser, {"Path"})
               IN  IF ~f.ok
                   THEN ParsedNone(f.parser, Report("Invalid command", f.token.start, f.token.end))
                   ELSE ParsedStmt(Program(program, a.argv, Inherit, PipeToFile(f.token),
                                           Range(cmd.start, token.end)), f.parser)
          [] OTHER ->
               ParsedStmt(Program(program, a.argv, Inherit, Inherit,
                                  Range(cmd.start, cmd.end)), a.parser)

\* InputParser::process_command
process_command(p) ==
    LET tmp == parser_next_token(p)
    IN  IF tmp.token.typ = "EOF"
        THEN ParsedNone(tmp.parser, NoReport)
        ELSE LET c == expect_token([tmp.parser EXCEPT !.index = tmp.parser.index - 1],
                                   {"Path", "Identifier"})
             IN  IF ~c.ok
                 THEN ParsedNone(c.parser, Report("Invalid command", c.token.start, c.token.end))
                 ELSE Terminate(c.token, CollectArgv(c.parser, <<>>))

\* the loop of build_ast: the statements pushed and the report of the call of
\* process_command that ended the loop
RECURSIVE ParseLoop(_, _)
ParseLoop(p, stmts) ==
    LET r == process_command(p)
    IN  IF r.out = "Some"
        THEN ParseLoop(r.parser, Append(stmts, r.stmt))
        ELSE [stmts |-> stmts, report |-> r.report]

\* InputParser::build_ast: the Module, and the diagnostic printed on the way
build_ast(p) == ParseLoop(p, <<>>)

(***************************************************************************)
(* The lines the user types.                                               *)
(***************************************************************************)
\* the fragments raw lines are made of
Pieces ==
    { <<"a">>, <<"c", "d">>, <<"e", "x", "i", "t">>, <<"1">>, <<".">>, <<"/">>,
      <<"\\">>, <<":">>, <<"\"">>, <<"|">>, <<">">>, <<" ">>, <<"$">> }

\* the commands and the terminators command lines are made of
Commands == { <<"a">>, <<"c", "d", " ", "/">> }
Endings == { <<"|">>, <<"&">>, <<" ">> }
Redirects == { <<">", "a", ".", "a">>, <<"<", "a", ".", "a">> }
StatementTexts ==
    { c \o e : c \in Commands, e \in Endings } \cup { <<"a">> \o r : r \in Redirects }

\* the concatenations of at most n members of S
RECURSIVE Concats(_, _)
Concats(S, n) ==
    IF n = 0 THEN { <<>> }
    ELSE LET shorter == Concats(S, n - 1)
         IN  shorter \cup { s \o x : s \in shorter, x \in S }

\* relative paths: one or two dots, a separator of either platform, a name
RelativePaths ==
    { d \o << s >> \o x : d \in { <<".">>, <<".", ".">> }, s \in {"/", "\\"},
                          x \in { <<"a">>, <<"a", "1">> } }

\* builtins with an argument, alone and with their output redirected to a
\* file, and ls
BuiltinLines ==
    { b \o r : b \in { <<"c", "d", " ", "a">>, <<"c", "d", " ", "x">>,
                        <<"e", "c", "h", "o", " ", "a">> },
               r \in { <<>>, <<">", "a", ".", "a">> } }
        \cup { <<"l", "s">> }

\* a command that is in no directory of PATH, with a redirect, alone and at
\* the end of a pipe
UnknownCommandLines ==
    { <<"d", ">", "a", ".", "a">>, <<"d", "<", "a", ".", "a">>,
      <<"a", "|", "d", ">", "a", ".", "a">> }

Lines ==
    Concats(Pieces, MaxPieces) \cup Concats(StatementTexts, MaxStmts)
        \cup RelativePaths \cup BuiltinLines \cup UnknownCommandLines

\* what read_line leaves after the text of the line
LineEnding(os) == IF os = "windows" THEN <<"\r", "\n">> ELSE <<"\n">>

\* the operators of the shell's grammar, as bytes of a line
OperatorChars == {"|", "<", ">", "&"}

(***************************************************************************)
(* The state.                                                              *)
(***************************************************************************)
VARIABLES
    target_os,     \* the platform the shell was built for
    pc,            \* where main is
    exit_status,   \* "running", or how the shell process ended: "exit", "panic"
    stdin_buffer,  \* main: the line read, with its line ending
    lexer,         \* the InputLexer of the line
    last_call,     \* the last call of InputLexer::next_token and what it consumed
    tokens,        \* main: the tokens collected so far, Whitespace filtered out
    reports,       \* the diagnostics printed while the line is processed
    module,        \* the Module build_ast returned
    engine,        \* Engine: cur_dir and source
    start_dir,     \* engine.cur_dir when the line was read
    iter,          \* execute: the number of statements taken from the iterator
    pipe_chain,    \* execute: the chain being executed
    chains,        \* the chains execute has formed for the line, in order
    calls,         \* the calls of execute_single and execute_pipeline for the line
    chain_index,   \* execute_pipeline: the position of the for loop in the chain
    prev_stdout,   \* execute_pipeline: the pipe read-end held, 0 for None
    children,      \* execute_pipeline / execute_single: the children to wait for
    procs,         \* the processes spawned for the line
    files,         \* the files opened or created for the line
    builtin_runs,  \* the builtins run for the line
    cwd,           \* the working directory of the shell process
    failure        \* the first operational failure of the line, and what preceded it

lexVars == <<stdin_buffer, lexer, last_call, tokens>>
execVars == <<iter, pipe_chain, chains, calls, chain_index, prev_stdout, children>>
worldVars == <<procs, files, builtin_runs>>
vars == <<target_os, pc, exit_status, lexVars, reports, module, engine, start_dir,
          execVars, worldVars, cwd, failure>>

\* Engine::get_base_dir: the value of the variable HOME or USERPROFILE
get_base_dir == <<"~">>

\* builtins::builtin_registry: the names of the table
builtin_registry ==
    { <<"c", "d">>, <<"l", "s">>, <<"e", "c", "h", "o">>, <<"c", "l", "e", "a", "r">>,
      <<"e", "x", "i", "t">> }

\* no operational failure on the line
NoFailure == [kind |-> "none", chain |-> 0, stmt |-> 0, files |-> 0, procs |-> 0]

\* the operational failure of kind kind at statement number stmt of the Module,
\* in chain number chain, with the numbers of files touched and of processes
\* spawned before the launch of the statement began
Failure(kind, chain, stmt, nfiles, nprocs) ==
    [kind |-> kind, chain |-> chain, stmt |-> stmt, files |-> nfiles, procs |-> nprocs]

\* no call of next_token yet
NoCall == [out |-> "none", token |-> default_token("EOF"), from |-> 0, to |-> 0,
           report |-> NoReport]

\* Engine::new, and main before its loop
Init ==
    /\ target_os \in {"windows", "linux"}
    /\ pc = "read"
    /\ exit_status = "running"
    /\ stdin_buffer = <<>>
    /\ lexer = InputLexer_new(target_os, <<>>)
    /\ last_call = NoCall
    /\ tokens = <<>>
    /\ reports = <<>>
    /\ module = [stmts |-> <<>>]
    /\ engine = [cur_dir |-> get_base_dir, source |-> <<>>, builtins |-> builtin_registry]
    /\ start_dir = get_base_dir
    /\ cwd = get_base_dir    \* the shell is started in the base directory
    /\ failure = NoFailure
    /\ iter = 0
    /\ pipe_chain = <<>>
    /\ chains = <<>>
    /\ calls = <<>>
    /\ chain_index = 0
    /\ prev_stdout = 0
    /\ children = <<>>
    /\ procs = <<>>
    /\ files = <<>>
    /\ builtin_runs = <<>>

\* the Err is dropped instead of unwrapped: execute goes on with the next chain
Panics_Continues ==
    /\ pc' = "execute"
    /\ exit_status' = exit_status

\* the shell process ends with a panic
Panics ==
    /\ pc' = "terminated"
    /\ exit_status' = "panic"

\* main, lines 19-22: the top of the loop; the buffer is renewed and the prompt
\* printed.  The bookkeeping of the previous line is dropped, and with it the
\* source the engine retained, which execute overwrites (line 47) before
\* anything reads it
Prompt ==
    /\ pc = "prompt"
    /\ pc' = "read"
    /\ stdin_buffer' = <<>>
    /\ lexer' = InputLexer_new(target_os, <<>>)
    /\ last_call' = NoCall
    /\ tokens' = <<>>
    /\ reports' = <<>>
    /\ module' = [stmts |-> <<>>]
    /\ engine' = [engine EXCEPT !.source = <<>>]
    /\ start_dir' = engine.cur_dir
    /\ iter' = 0
    /\ pipe_chain' = <<>>
    /\ chains' = <<>>
    /\ calls' = <<>>
    /\ chain_index' = 0
    /\ prev_stdout' = 0
    /\ children' = <<>>
    /\ procs' = <<>>
    /\ files' = <<>>
    /\ builtin_runs' = <<>>
    /\ failure' = NoFailure
    /\ UNCHANGED <<target_os, cwd, exit_status>>

\* main, lines 24-29: a line is read, with its line ending, and its lexer
\* constructed
ReadLine ==
    /\ pc = "read"
    /\ \E text \in Lines :
        /\ stdin_buffer' = text \o LineEnding(target_os)
        /\ lexer' = InputLexer_new(target_os, text \o LineEnding(target_os))
    /\ pc' = "lex"
    /\ UNCHANGED <<target_os, cwd, failure, exit_status, last_call, tokens, reports, module, engine,
                   start_dir, execVars, worldVars>>

\* main, lines 24-29, at the end of the standard input: read_line leaves the
\* buffer empty, and InputLexer::new panics on Windows
ReadEof ==
    /\ pc = "read"
    /\ stdin_buffer' = <<>>
    /\ lexer' = InputLexer_new(target_os, <<>>)
    /\ IF NewPanics(target_os, <<>>)
       THEN Panics
       ELSE pc' = "lex" /\ exit_status' = exit_status
    /\ UNCHANGED <<target_os, cwd, failure, last_call, tokens, reports, module, engine, start_dir,
                   execVars, worldVars>>

\* what a call of next_token consumed and returned
Call(r) ==
    [out |-> r.out, token |-> r.token, from |-> lexer.index, to |-> r.lexer.index,
     report |-> r.report]

\* main, lines 31-33: one step of the collect, next_token returns a token
LexToken ==
    /\ pc = "lex"
    /\ LET r == next_token(target_os, lexer)
       IN  /\ r.out = "Some"
           /\ Len(tokens) < MaxTokens \/ r.lexer.index > lexer.index
           /\ lexer' = r.lexer
           /\ last_call' = Call(r)
           /\ tokens' = IF r.token.typ # "Whitespace" THEN Append(tokens, r.token) ELSE tokens
    /\ UNCHANGED <<target_os, cwd, failure, pc, exit_status, stdin_buffer, reports, module, engine,
                   start_dir, execVars, worldVars>>

\* main, lines 31-33: next_token returns None and the collect ends
LexNone ==
    /\ pc = "lex"
    /\ LET r == next_token(target_os, lexer)
       IN  /\ r.out = "None"
           /\ lexer' = r.lexer
           /\ last_call' = Call(r)
           /\ reports' = IF r.report # NoReport THEN Append(reports, r.report) ELSE reports
    /\ pc' = "parse"
    /\ UNCHANGED <<target_os, cwd, failure, exit_status, stdin_buffer, tokens, module, engine,
                   start_dir, execVars, worldVars>>

\* main, lines 31-33: next_token panics
LexPanic ==
    /\ pc = "lex"
    /\ LET r == next_token(target_os, lexer)
       IN  /\ r.out = "Panic"
           /\ last_call' = Call(r)
    /\ Panics
    /\ UNCHANGED <<target_os, cwd, failure, stdin_buffer, lexer, tokens, reports, module, engine,
                   start_dir, execVars, worldVars>>

\* main, lines 35-39: the parser is run on the collected tokens and execute
\* is entered with the Module: it saves the source
BuildAst ==
    /\ pc = "parse"
    /\ LET r == build_ast(InputParser_new(tokens))
       IN  /\ module' = [stmts |-> r.stmts]
           /\ reports' = IF r.report # NoReport THEN Append(reports, r.report) ELSE reports
    /\ engine' = [engine EXCEPT !.source = stdin_buffer]
    /\ pc' = "execute"
    /\ UNCHANGED <<target_os, cwd, failure, exit_status, lexVars, start_dir, execVars, worldVars>>

(***************************************************************************)
(* The engine's collaborators: the file system and the processes.          *)
(***************************************************************************)
\* Engine.path: the directories of the variable PATH
path == <<"bin">>

\* the files of the directories of PATH
DiskFiles ==
    { [dir |-> "bin", name |-> <<"a">>, ext |-> ""],
      [dir |-> "bin", name |-> <<"a">>, ext |-> "exe"] }

\* the directories set_current_dir and read_dir find, as absolute paths: the
\* root, the base directory and its subdirectory a
ExistingDirs == { <<"/">>, get_base_dir, get_base_dir \o <<"/", "a">> }

\* a path is absolute when it starts at the root or is under the base directory
is_absolute(p) == p # <<>> /\ p[1] \in {"/", "~"}

\* the directory a path names for set_current_dir and read_dir: a relative
\* path is resolved against the working directory dir of the process
Resolve(dir, p) ==
    IF is_absolute(p) THEN p
    ELSE IF dir = <<"/">> THEN dir \o p
    ELSE dir \o <<"/">> \o p

\* the positions of the dots of a name after its first byte
Dots(cmd) == { i \in 2 .. Len(cmd) : cmd[i] = "." }

\* PathBuf::set_extension replaces what follows the last dot of the name
Stem(cmd) ==
    IF Dots(cmd) = {} THEN cmd
    ELSE SubSeq(cmd, 1, (CHOOSE i \in Dots(cmd) : \A j \in Dots(cmd) : j <= i) - 1)

\* the extensions find_executable tries
extensions(os) == IF os = "windows" THEN {"exe", "cmd", "bat", "com"} ELSE {""}

\* Engine::find_executable: TRUE for Ok(full_path), FALSE for Err(NotFound)
find_executable(os, cmd) ==
    \E i \in 1 .. Len(path), ext \in extensions(os) :
        [dir |-> path[i], name |-> IF ext = "" THEN cmd ELSE Stem(cmd), ext |-> ext]
            \in DiskFiles

\* &source[range]
Text(source, range) == Slice(source, range.start, range.end)

\* what a child's stdin or stdout is bound to
StdioInherit == [kind |-> "inherit", pipe |-> 0, file |-> <<>>]
StdioFile(name) == [kind |-> "file", pipe |-> 0, file |-> name]
StdioPipeRead(id) == [kind |-> "pipe_read", pipe |-> id, file |-> <<>>]
StdioPipeWrite(id) == [kind |-> "pipe_write", pipe |-> id, file |-> <<>>]

\* execute_pipeline, lines 94-105: the stdin of the statement's process
PipelineStdin(source, stmt, prev) ==
    IF prev # 0 THEN StdioPipeRead(prev)
    ELSE IF stmt.stdin.kind = "PipeFromFile" THEN StdioFile(Text(source, stmt.stdin))
    ELSE StdioInherit

\* execute_pipeline, lines 109-118: the stdout of the statement's process;
\* pipe is the pipe Stdio::piped() creates at the spawn
PipelineStdout(source, stmt, pipe) ==
    IF stmt.stdout.kind = "PipeToStdin" THEN StdioPipeWrite(pipe)
    ELSE IF stmt.stdout.kind = "PipeToFile" THEN StdioFile(Text(source, stmt.stdout))
    ELSE StdioInherit

\* execute_single, lines 148-155
SingleStdin(source, stmt) ==
    IF stmt.stdin.kind = "PipeFromFile" THEN StdioFile(Text(source, stmt.stdin))
    ELSE StdioInherit

\* execute_single, lines 157-164
SingleStdout(source, stmt) ==
    IF stmt.stdout.kind = "PipeToFile" THEN StdioFile(Text(source, stmt.stdout))
    ELSE StdioInherit

\* how far the launch of an external statement gets: find_executable, then
\* File::open for stdin, then File::create for stdout, then spawn
Outcomes(os, source, stmt, in, out) ==
    IF ~find_executable(os, Text(source, stmt.program)) THEN {"not_found"}
    ELSE {"spawned", "spawn_failed"}
         \cup (IF in.kind = "file" THEN {"open_failed"} ELSE {})
         \cup (IF out.kind = "file" THEN {"create_failed"} ELSE {})

\* FilesTouched with the redirect files opened before the executable is looked
\* for
FilesTouched_BeforeResolution(chain, in, out, outcome) ==
    (IF in.kind = "file" /\ outcome # "open_failed"
     THEN << [op |-> "open", file |-> in.file, chain |-> chain] >> ELSE <<>>)
    \o (IF out.kind = "file" /\ outcome \notin {"open_failed", "create_failed"}
        THEN << [op |-> "create", file |-> out.file, chain |-> chain] >> ELSE <<>>)

\* the files the launch of a statement of chain number chain has opened (stdin)
\* and created or truncated (stdout) when it ends with the outcome
FilesTouched(chain, in, out, outcome) ==
    (IF in.kind = "file" /\ outcome \in {"create_failed", "spawn_failed", "spawned"}
     THEN << [op |-> "open", file |-> in.file, chain |-> chain] >> ELSE <<>>)
    \o (IF out.kind = "file" /\ outcome \in {"spawn_failed", "spawned"}
        THEN << [op |-> "create", file |-> out.file, chain |-> chain] >> ELSE <<>>)

\* a process spawned for statement number stmt of the Module, of chain number chain
Process(chain, stmt, in, out) ==
    [chain |-> chain, stmt |-> stmt, stdin |-> in, stdout |-> out, waited |-> FALSE]

(***************************************************************************)
(* The builtins.                                                           *)
(***************************************************************************)
\* cd that assigns cur_dir before set_current_dir is tried
cd_AssignsFirst(eng, stmt, dir) ==
    LET p == IF Len(stmt.argv) > 0 THEN Text(eng.source, stmt.argv[1]) ELSE get_base_dir
    IN  IF Resolve(dir, p) \in ExistingDirs
        THEN [result |-> "Ok", engine |-> [eng EXCEPT !.cur_dir = p], cwd |-> Resolve(dir, p)]
        ELSE [result |-> "Err", engine |-> [eng EXCEPT !.cur_dir = p], cwd |-> dir]

\* builtins::cd, called with the working directory dir of the process: the
\* result, the engine and the working directory after it.  cur_dir is given
\* the path as it was typed
cd(eng, stmt, dir) ==
    LET p == IF Len(stmt.argv) > 0 THEN Text(eng.source, stmt.argv[1]) ELSE get_base_dir
    IN  IF Resolve(dir, p) \in ExistingDirs
        THEN [result |-> "Ok", engine |-> [eng EXCEPT !.cur_dir = p], cwd |-> Resolve(dir, p)]
        ELSE [result |-> "Err", engine |-> eng, cwd |-> dir]

\* builtins::ls: read_dir(cur_dir).unwrap(), cur_dir resolved against the
\* working directory dir of the process
ls(eng, stmt, dir) ==
    IF Resolve(dir, eng.cur_dir) \in ExistingDirs
    THEN [result |-> "Ok", engine |-> eng]
    ELSE [result |-> "Panic", engine |-> eng]

\* builtins::echo: without an argument it reads the standard input to its end
echo(eng, stmt, read_ok) ==
    IF Len(stmt.argv) > 0 \/ read_ok
    THEN [result |-> "Ok", engine |-> eng]
    ELSE [result |-> "Err", engine |-> eng]

\* builtins::clear
clear(eng, stmt) == [result |-> "Ok", engine |-> eng]

\* builtins::exit
exit(eng, stmt) == [result |-> "Exit", engine |-> eng]

\* the call builtin(self, &stmt) of execute_single, in a process whose
\* working directory is dir: the result and the engine after it
builtin(name, eng, stmt, read_ok, dir) ==
    CASE name = <<"c", "d">> ->
             [result |-> cd(eng, stmt, dir).result, engine |-> cd(eng, stmt, dir).engine]
      [] name = <<"l", "s">> -> ls(eng, stmt, dir)
      [] name = <<"e", "c", "h", "o">> -> echo(eng, stmt, read_ok)
      [] name = <<"c", "l", "e", "a", "r">> -> clear(eng, stmt)
      [] OTHER -> exit(eng, stmt)

\* the working directory of the process after the call builtin(self, &stmt):
\* only cd calls set_current_dir
builtin_cwd(name, eng, stmt, dir) ==
    IF name = <<"c", "d">> THEN cd(eng, stmt, dir).cwd ELSE dir

\* where a builtin that returns result has written: println! and print! write
\* to the standard output of the shell itself, whatever stdout the statement
\* carries; cd and exit write nothing, nor does a builtin that fails first
builtin_stdout(name, result) ==
    IF result = "Ok" /\ name \in { <<"l", "s">>, <<"e", "c", "h", "o">>,
                                  <<"c", "l", "e", "a", "r">> }
    THEN "inherit"
    ELSE "none"

\* a run of a builtin for a chain: its result, the directory it was called
\* in and where it has written
BuiltinRun(name, chain, result, dir) ==
    [name |-> name, chain |-> chain, result |-> result, cur_dir |-> dir,
     stdout |-> builtin_stdout(name, result)]

(***************************************************************************)
(* Engine::execute.                                                        *)
(***************************************************************************)
\* execute, lines 52-59: the chain is extended while its last statement pipes
\* and the iterator has a next statement; taken counts the statements taken
RECURSIVE ExtendChain(_, _, _)
ExtendChain(stmts, chain, taken) ==
    IF taken < Len(stmts) /\ chain[Len(chain)].stdout = PipeToStdin
    THEN ExtendChain(stmts, Append(chain, stmts[taken + 1]), taken + 1)
    ELSE [chain |-> chain, taken |-> taken]

\* next_chain without the inner loop: every statement is a chain of its own
next_chain_NotExtended(stmts, taken) == [chain |-> << stmts[taken + 1] >>, taken |-> taken + 1]

\* execute, lines 50-59: the next chain, from the statement iter.next() yields
next_chain(stmts, taken) == ExtendChain(stmts, << stmts[taken + 1] >>, taken + 1)

\* dispatch with the test of the length inverted
dispatch_Inverted(chain) == IF Len(chain) = 1 THEN "pipeline" ELSE "single"

\* execute, lines 61-67: the routine a chain is handed to
dispatch(chain) == IF Len(chain) = 1 THEN "single" ELSE "pipeline"

\* the number in the Module of the statement at position i of the current chain
StmtNumber(i) == iter - Len(pipe_chain) + i

\* execute, lines 49-67: the next chain is formed and handed over
FormChain ==
    /\ pc = "execute"
    /\ iter < Len(module.stmts)
    /\ LET c == next_chain(module.stmts, iter)
       IN  /\ pipe_chain' = c.chain
           /\ iter' = c.taken
           /\ chains' = Append(chains, c.chain)
           /\ calls' = Append(calls, dispatch(c.chain))
           /\ pc' = dispatch(c.chain)
    /\ chain_index' = 0
    /\ prev_stdout' = 0
    /\ children' = <<>>
    /\ UNCHANGED <<target_os, cwd, failure, exit_status, lexVars, reports, module, engine, start_dir,
                   worldVars>>

\* execute, line 49: the iterator is exhausted, execute returns to main
ExecuteReturn ==
    /\ pc = "execute"
    /\ iter = Len(module.stmts)
    /\ pc' = "prompt"
    /\ UNCHANGED <<target_os, cwd, failure, exit_status, lexVars, reports, module, engine, start_dir,
                   execVars, worldVars>>

\* execute_single, lines 140-142, and the unwrap of execute, line 63
SingleBuiltin ==
    /\ pc = "single"
    /\ LET stmt == pipe_chain[1]
           name == Text(engine.source, stmt.program)
       IN  /\ name \in engine.builtins
           /\ \E read_ok \in BOOLEAN :
                LET r == builtin(name, engine, stmt, read_ok, cwd)
                IN  /\ engine' = r.engine
                    /\ cwd' = builtin_cwd(name, engine, stmt, cwd)
                    /\ CASE r.result = "Ok" -> pc' = "execute" /\ exit_status' = exit_status
                         [] r.result = "Exit" -> pc' = "terminated" /\ exit_status' = "exit"
                         [] OTHER -> Panics
                    /\ builtin_runs' = Append(builtin_runs,
                            BuiltinRun(name, Len(chains), r.result, engine.cur_dir))
    /\ UNCHANGED <<target_os, failure, lexVars, reports, module, start_dir, execVars, procs,
                   files>>

\* execute_single, lines 144-167, and the unwrap of execute, line 63
SingleSpawn ==
    /\ pc = "single"
    /\ LET stmt == pipe_chain[1]
           in == SingleStdin(engine.source, stmt)
           out == SingleStdout(engine.source, stmt)
       IN  /\ Text(engine.source, stmt.program) \notin engine.builtins
           /\ \E outcome \in Outcomes(target_os, engine.source, stmt, in, out) :
                /\ files' = files \o FilesTouched(Len(chains), in, out, outcome)
                /\ IF outcome = "spawned"
                   THEN /\ procs' = Append(procs, Process(Len(chains), StmtNumber(1), in, out))
                        /\ children' = << Len(procs) + 1 >>
                        /\ pc' = "single_wait"
                        /\ exit_status' = exit_status
                        /\ failure' = failure
                   ELSE /\ Panics
                        /\ failure' = Failure(outcome, Len(chains), StmtNumber(1),
                                               Len(files), Len(procs))
                        /\ UNCHANGED <<procs, children>>
    /\ UNCHANGED <<target_os, cwd, lexVars, reports, module, engine, start_dir, iter, pipe_chain,
                   chains, calls, chain_index, prev_stdout, builtin_runs>>

\* execute_single, line 168: child.wait() returns when the child has exited
SingleWait ==
    /\ pc = "single_wait"
    /\ \E wait_ok \in BOOLEAN :
        IF wait_ok
        THEN /\ procs' = [procs EXCEPT ![children[1]].waited = TRUE]
             /\ children' = <<>>
             /\ pc' = "execute"
             /\ exit_status' = exit_status
             /\ failure' = failure
        ELSE /\ Panics
             /\ failure' = Failure("wait_failed", Len(chains), procs[children[1]].stmt,
                                    Len(files), Len(procs))
             /\ UNCHANGED <<procs, children>>
    /\ UNCHANGED <<target_os, cwd, lexVars, reports, module, engine, start_dir, iter, pipe_chain,
                   chains, calls, chain_index, prev_stdout, files, builtin_runs>>

\* execute_pipeline, lines 75-88: the statement of this iteration names a
\* builtin; the error is reported and execute_pipeline returns Ok(())
PipelineBuiltin ==
    /\ pc = "pipeline"
    /\ chain_index < Len(pipe_chain)
    /\ LET stmt == pipe_chain[chain_index + 1]
       IN  /\ Text(engine.source, stmt.program) \in engine.builtins
           /\ reports' = Append(reports, Report("Unsupported pipe operation",
                                                stmt.span.start, stmt.span.end))
    /\ pc' = "execute"
    /\ UNCHANGED <<target_os, cwd, failure, exit_status, lexVars, module, engine, start_dir, execVars,
                   worldVars>>

\* execute_pipeline, lines 90-128: one iteration of the for loop for an
\* external statement; after the last statement the wait loop is entered
PipelineSpawn ==
    /\ pc = "pipeline"
    /\ chain_index < Len(pipe_chain)
    /\ LET stmt == pipe_chain[chain_index + 1]
           pipe == Len(procs) + 1
           in == PipelineStdin(engine.source, stmt, prev_stdout)
           out == PipelineStdout(engine.source, stmt, pipe)
       IN  /\ Text(engine.source, stmt.program) \notin engine.builtins
           /\ \E outcome \in Outcomes(target_os, engine.source, stmt, in, out) :
                /\ files' = files \o FilesTouched(Len(chains), in, out, outcome)
                /\ IF outcome = "spawned"
                   THEN /\ procs' = Append(procs, Process(Len(chains),
                                                          StmtNumber(chain_index + 1), in, out))
                        /\ children' = Append(children, pipe)
                        /\ prev_stdout' = IF stmt.stdout = PipeToStdin THEN pipe ELSE 0
                        /\ chain_index' = chain_index + 1
                        /\ pc' = IF chain_index + 1 = Len(pipe_chain)
                                 THEN "pipeline_wait" ELSE "pipeline"
                        /\ exit_status' = exit_status
                        /\ failure' = failure
                   ELSE /\ Panics
                        /\ failure' = Failure(outcome, Len(chains),
                                               StmtNumber(chain_index + 1),
                                               Len(files), Len(procs))
                        /\ UNCHANGED <<procs, children, prev_stdout, chain_index>>
    /\ UNCHANGED <<target_os, cwd, lexVars, reports, module, engine, start_dir, iter, pipe_chain,
                   chains, calls, builtin_runs>>

\* execute_pipeline, lines 131-135: child.wait() for the next child, in spawn
\* order; after the last one execute_pipeline returns Ok(())
PipelineWait ==
    /\ pc = "pipeline_wait"
    /\ \E wait_ok \in BOOLEAN :
        IF wait_ok
        THEN /\ procs' = [procs EXCEPT ![Head(children)].waited = TRUE]
             /\ children' = Tail(children)
             /\ pc' = IF Len(children) = 1 THEN "execute" ELSE "pipeline_wait"
             /\ exit_status' = exit_status
             /\ failure' = failure
        ELSE /\ Panics
             /\ failure' = Failure("wait_failed", Len(chains), procs[Head(children)].stmt,
                                    Len(files), Len(procs))
             /\ UNCHANGED <<procs, children>>
    /\ UNCHANGED <<target_os, cwd, lexVars, reports, module, engine, start_dir, iter, pipe_chain,
                   chains, calls, chain_index, prev_stdout, files, builtin_runs>>

Next ==
    \/ Prompt
    \/ ReadLine
    \/ ReadEof
    \/ LexToken
    \/ LexNone
    \/ LexPanic
    \/ BuildAst
    \/ FormChain
    \/ ExecuteReturn
    \/ SingleBuiltin
    \/ SingleSpawn
    \/ SingleWait
    \/ PipelineBuiltin
    \/ PipelineSpawn
    \/ PipelineWait

Spec == Init /\ [][Next]_vars

(***************************************************************************)
(* Vocabulary of the properties.                                           *)
(***************************************************************************)
\* the text of the line read, without its line ending
LineText == SubSeq(stdin_buffer, 1, Len(stdin_buffer) - Len(LineEnding(target_os)))

\* the messages of the lexer's diagnostics
LexerMessages ==
    {"Invalid expression", "Unexpected end of path", "Unexpected termination of string"}

\* the lexer reported a lexical error on the line: the call of next_token that
\* ended the collect printed a diagnostic and returned None
LexicalError == last_call.out = "None" /\ last_call.report.msg \in LexerMessages

\* the parser reported an error on the line
ParseError == \E i \in 1 .. Len(reports) : reports[i].msg = "Invalid command"

\* build_ast has returned the Module of the line
ModuleBuilt ==
    pc \in {"execute", "single", "single_wait", "pipeline", "pipeline_wait", "prompt"}
    \/ calls # <<>>

\* execute has returned to main for the line
LineDone == pc = "prompt"

\* a chain has a statement whose command names a builtin
HasBuiltin(chain) ==
    \E i \in 1 .. Len(chain) : Text(engine.source, chain[i].program) \in engine.builtins

\* the statements of a sequence of chains, in processing order
RECURSIVE Flatten(_)
Flatten(cs) == IF cs = <<>> THEN <<>> ELSE Head(cs) \o Flatten(Tail(cs))

\* the line holds none of the operators | < > &
NoOperators == \A i \in 1 .. Len(stdin_buffer) : stdin_buffer[i] \notin OperatorChars

\* the processes and builtins started for the line
Started == Len(procs) + Len(builtin_runs)

(***************************************************************************)
(* C1.  A line on which the lexer reports a lexical error produces no      *)
(* Module: nothing lexed before the error is parsed, no builtin runs, no   *)
(* process is spawned and the current directory is what it was when the    *)
(* line was read.                                                          *)
(***************************************************************************)
C1_LexicalErrorAbortsLine ==
    LexicalError =>
        /\ module.stmts = <<>>
        /\ builtin_runs = <<>>
        /\ procs = <<>>
        /\ engine.cur_dir = start_dir

(***************************************************************************)
(* C2.  build_ast fails atomically: when a statement of the line fails to  *)
(* parse, the Module holds no statement at all.                            *)
(***************************************************************************)
C2_ParseErrorEmptiesModule ==
    ModuleBuilt /\ ParseError => module.stmts = <<>>

(***************************************************************************)
(* C3.  Nothing that happens inside Engine::execute ends the shell process *)
(* except the exit builtin: once execute has called execute_single or      *)
(* execute_pipeline, the process is running or has ended by exit.          *)
(***************************************************************************)
C3_OnlyExitEndsTheShell ==
    calls # <<>> => exit_status \in {"running", "exit"}

(***************************************************************************)
(* C4.  A chain of two or more statements with a builtin at any position   *)
(* spawns no process and touches no file.                                  *)
(***************************************************************************)
C4_BuiltinChainHasNoEffect ==
    \A k \in 1 .. Len(chains) :
        Len(chains[k]) >= 2 /\ HasBuiltin(chains[k]) =>
            /\ \A p \in 1 .. Len(procs) : procs[p].chain # k
            /\ \A f \in 1 .. Len(files) : files[f].chain # k

(***************************************************************************)
(* C5.  execute partitions module.stmts into maximal ordered chains: the   *)
(* chains formed so far, concatenated, are exactly the statements taken    *)
(* from the Module, all of them once execute has returned; every statement *)
(* of a chain but its last pipes to the next; and a chain ends at the      *)
(* first statement that does not pipe or at the last statement of the      *)
(* Module.                                                                 *)
(***************************************************************************)
C5_ChainsPartitionModule ==
    /\ Flatten(chains) = SubSeq(module.stmts, 1, iter)
    /\ LineDone => Flatten(chains) = module.stmts
    /\ \A k \in 1 .. Len(chains) :
        /\ chains[k] # <<>>
        /\ \A i \in 1 .. Len(chains[k]) - 1 : chains[k][i].stdout = PipeToStdin
        /\ \/ chains[k][Len(chains[k])].stdout # PipeToStdin
           \/ Len(Flatten(SubSeq(chains, 1, k))) = Len(module.stmts)

\* a line of two chains, a pipeline and a single statement, has been executed
C5_Witness ==
    /\ LineDone
    /\ Len(module.stmts) = 3
    /\ Len(chains) = 2
    /\ Len(chains[1]) = 2
    /\ Len(procs) = 3
    /\ \A p \in 1 .. Len(procs) : procs[p].waited

(***************************************************************************)
(* C6.  Chains run strictly one after another: when a statement of a later *)
(* chain is started (spawned, or run as a builtin), every process spawned  *)
(* for an earlier chain has been waited on.  (An operational error ends    *)
(* the shell in this code, so no chain follows one.)                       *)
(***************************************************************************)
C6_ChainsRunOneAfterAnother ==
    \A p \in 1 .. Len(procs) :
        /\ \A q \in 1 .. Len(procs) : procs[p].chain < procs[q].chain => procs[p].waited
        /\ \A b \in 1 .. Len(builtin_runs) :
               procs[p].chain < builtin_runs[b].chain => procs[p].waited

(***************************************************************************)
(* C7.  Pipe wiring in a chain of external commands: the stdin of every    *)
(* process but the first is the read-end of the pipe whose write-end is    *)
(* the stdout of the process before it, whatever stdin the statement       *)
(* carries; the stdin of the first follows its own strategy (file or       *)
(* inherit) and the stdout of the last follows its own (file or inherit).  *)
(***************************************************************************)
\* the process spawned for statement number n of the Module, 0 when none
ProcOf(n) ==
    IF \E p \in 1 .. Len(procs) : procs[p].stmt = n
    THEN CHOOSE p \in 1 .. Len(procs) : procs[p].stmt = n
    ELSE 0

\* the number in the Module of the first statement of chain number k
FirstOf(k) == Len(Flatten(SubSeq(chains, 1, k - 1))) + 1

C7_PipeWiring ==
    \A k \in 1 .. Len(chains) :
        Len(chains[k]) >= 2 /\ ~HasBuiltin(chains[k]) =>
            \A i \in 1 .. Len(chains[k]) :
                LET stmt == chains[k][i]
                    p == ProcOf(FirstOf(k) + i - 1)
                IN  p # 0 =>
                      /\ i >= 2 =>
                           /\ procs[p].stdin.kind = "pipe_read"
                           /\ procs[p - 1].chain = k
                           /\ procs[p - 1].stmt = procs[p].stmt - 1
                           /\ procs[p - 1].stdout = StdioPipeWrite(procs[p].stdin.pipe)
                      /\ i = 1 =>
                           procs[p].stdin =
                               IF stmt.stdin.kind = "PipeFromFile"
                               THEN StdioFile(Text(engine.source, stmt.stdin))
                               ELSE StdioInherit
                      /\ i = Len(chains[k]) =>
                           procs[p].stdout =
                               IF stmt.stdout.kind = "PipeToFile"
                               THEN StdioFile(Text(engine.source, stmt.stdout))
                               ELSE StdioInherit

(***************************************************************************)
(* C8, as the spec states it.  Every line without operators executes       *)
(* exactly one process or builtin, through execute_single.                 *)
(***************************************************************************)
C8_ExactlyOneExecutes ==
    LineDone /\ NoOperators => Started = 1 /\ calls = <<"single">>

(***************************************************************************)
(* C8, amended.  A line without operators gives a Module of at most one    *)
(* statement, of exactly one when the first token left by the whitespace   *)
(* filter is a Path or an Identifier; the engine starts at most one        *)
(* process or builtin for it, through execute_single and never through     *)
(* execute_pipeline; and when execute returns every statement of the       *)
(* Module has been handed to execute_single.                               *)
(***************************************************************************)
C8_AtMostOneThroughSingle ==
    NoOperators =>
        /\ Len(module.stmts) <= 1
        /\ Started <= 1
        /\ Len(calls) <= 1
        /\ \A i \in 1 .. Len(calls) : calls[i] = "single"
        /\ Started <= Len(calls)
        /\ ModuleBuilt /\ tokens # <<>> /\ tokens[1].typ \in {"Path", "Identifier"}
               => Len(module.stmts) = 1
        /\ LineDone => Len(calls) = Len(module.stmts)

\* a line without operators has run one external command to its end
C8_Witness ==
    /\ LineDone
    /\ NoOperators
    /\ calls = <<"single">>
    /\ Len(procs) = 1
    /\ procs[1].waited
    /\ module.stmts[1].argv # <<>>

(***************************************************************************)
(* C9.  n commands, each with any arguments, joined by n - 1 Pipe tokens   *)
(* and ended by the end of the input parse into n statements in source     *)
(* order, all with stdin = Inherit, the first n - 1 with stdout =          *)
(* PipeToStdin and the last with stdout = Inherit; and the engine groups   *)
(* all n into one chain.                                                   *)
(***************************************************************************)
\* the positions of the Pipe tokens, and of the first token of each command
PipeAt == { i \in 1 .. Len(tokens) : tokens[i].typ = "Pipe" }
CommandAt == {1} \cup { i + 1 : i \in PipeAt }

\* the tokens are commands with arguments joined by Pipe tokens
PipedCommands ==
    /\ tokens # <<>>
    /\ tokens[Len(tokens)].typ # "Pipe"
    /\ \A i \in 1 .. Len(tokens) : tokens[i].typ \notin {"And", "RedirIn", "RedirOut", "EOF"}
    /\ \A i \in CommandAt : tokens[i].typ \in {"Path", "Identifier"}

\* the position of the first token of command number k, and of its last token
CommandStart(k) == CHOOSE i \in CommandAt : Cardinality({ j \in CommandAt : j < i }) = k - 1
CommandEnd(k) ==
    IF k = Cardinality(CommandAt) THEN Len(tokens) ELSE CommandStart(k + 1) - 2

C9_PipedCommandsParseToOneChain ==
    ModuleBuilt /\ PipedCommands =>
        /\ ~ParseError
        /\ Len(module.stmts) = Cardinality(CommandAt)
        /\ \A k \in 1 .. Len(module.stmts) :
             LET stmt == module.stmts[k]
                 first == CommandStart(k)
                 last == CommandEnd(k)
             IN  /\ stmt.program = Range(tokens[first].start, tokens[first].end)
                 /\ stmt.argv = [ j \in 1 .. last - first |->
                                    Range(tokens[first + j].start, tokens[first + j].end) ]
                 /\ stmt.stdin = Inherit
                 /\ stmt.stdout = IF k < Len(module.stmts) THEN PipeToStdin ELSE Inherit
        /\ pc # "execute" \/ iter > 0 => chains = << module.stmts >>

\* three piped commands, one with an argument, are parsed and handed to
\* execute_pipeline as one chain
C9_Witness ==
    /\ PipedCommands
    /\ Len(module.stmts) = 3
    /\ \E k \in 1 .. 3 : module.stmts[k].argv # <<>>
    /\ pc = "pipeline"
    /\ chains = << module.stmts >>

(***************************************************************************)
(* C10.  The span of every token next_token returns lies inside the buffer *)
(* and is exactly what the call consumed: it starts where the lexer stood  *)
(* before the call and ends where it stands after it.  In particular a     *)
(* Whitespace token covers the one character the call consumed.            *)
(***************************************************************************)
C10_SpanIsWhatWasConsumed ==
    last_call.out = "Some" =>
        /\ last_call.token.start = last_call.from
        /\ last_call.token.end = last_call.to
        /\ last_call.token.end <= Len(lexer.source)
        /\ last_call.token.typ = "Whitespace" => last_call.token.end = last_call.token.start + 1

(***************************************************************************)
(* C11.  A line that is one or two dots, the platform's separator and an   *)
(* alphanumeric name is lexed into exactly one Path token, from the first  *)
(* dot to the end of the name.                                             *)
(***************************************************************************)
\* the text is `.` or `..`, the separator of the platform, a name
IsRelativePath(text) ==
    \E n \in {1, 2} :
        /\ Len(text) > n + 1
        /\ \A i \in 1 .. n : text[i] = "."
        /\ text[n + 1] = SLASH(target_os)
        /\ \A i \in n + 2 .. Len(text) : is_alphanumeric(text[i])

\* the collect of main over the lexer has ended for the line
CollectDone == pc \notin {"read", "lex"}

C11_RelativePathIsOneToken ==
    IsRelativePath(LineText) /\ CollectDone =>
        tokens = << Token("Path", 0, Len(LineText)) >>

(***************************************************************************)
(* C12.  A string that is not closed before the end of the buffer makes    *)
(* next_token return None, and the span of the diagnostic runs from the    *)
(* opening quote to the end of the input (the end of the text of the line, *)
(* or of the buffer the lexer holds).                                      *)
(***************************************************************************)
C12_UnterminatedStringSpan ==
    last_call.report.msg = "Unexpected termination of string" =>
        /\ last_call.out = "None"
        /\ last_call.report.start = last_call.from
        /\ last_call.report.end \in {Len(LineText), Len(lexer.source)}

(***************************************************************************)
(* C13.  A cd to a directory that does not exist leaves engine.cur_dir as  *)
(* it was before the call and ends as an error outcome the shell survives. *)
(***************************************************************************)
C13_FailedCdIsReported ==
    builtin_runs # <<>> =>
        LET run == builtin_runs[Len(builtin_runs)]
        IN  run.name = <<"c", "d">> /\ run.result = "Err" =>
                /\ engine.cur_dir = run.cur_dir
                /\ exit_status = "running"

(***************************************************************************)
(* C14.  After a single statement with its output redirected to a file has *)
(* been executed, the file has been created or truncated, what the command *)
(* wrote to its standard output went to that file, and nothing of it went  *)
(* to the standard output of the shell.  The command is an external        *)
(* executable or a builtin.                                                *)
(***************************************************************************)
C14_RedirectedOutputGoesToFile ==
    pc \in {"execute", "prompt"} =>
        \A k \in 1 .. Len(chains) :
            Len(chains[k]) = 1 /\ chains[k][1].stdout.kind = "PipeToFile" =>
                LET out == Text(engine.source, chains[k][1].stdout)
                IN  /\ \E f \in 1 .. Len(files) :
                           files[f] = [op |-> "create", file |-> out, chain |-> k]
                    /\ \A p \in 1 .. Len(procs) :
                           procs[p].chain = k => procs[p].stdout = StdioFile(out)
                    /\ \A b \in 1 .. Len(builtin_runs) :
                           builtin_runs[b].chain = k => builtin_runs[b].stdout # "inherit"

(***************************************************************************)
(* C15.  Lexing terminates: a call of next_token that returns a token      *)
(* advances the position or is followed by a call that returns None, so    *)
(* that a buffer of n bytes yields at most n + 1 tokens.                   *)
(***************************************************************************)
C15_LexingTerminates ==
    /\ pc = "lex" /\ last_call.out = "Some" /\ last_call.to = last_call.from =>
           next_token(target_os, lexer).out = "None"
    /\ Len(tokens) <= Len(lexer.source) + 1

(***************************************************************************)
(* C16.  On a lexically well-formed line the results of next_token end     *)
(* with exactly one EOF token of empty span, after the last real token and *)
(* right before the call that returns None.                                *)
(***************************************************************************)
\* the lexer has reached the end of the line without a diagnostic, and the
\* line holds no dot (a dot is well formed only in some positions)
WellFormedLine ==
    /\ pc = "parse"
    /\ ~LexicalError
    /\ \A i \in 1 .. Len(LineText) : LineText[i] # "."

C16_EofTokenEndsTheTokens ==
    WellFormedLine =>
        /\ tokens # <<>>
        /\ tokens[Len(tokens)].typ = "EOF"
        /\ tokens[Len(tokens)].start = tokens[Len(tokens)].end
        /\ \A i \in 1 .. Len(tokens) - 1 : tokens[i].typ # "EOF"

(***************************************************************************)
(* C17.  next_token is total: every call returns a token or None, no       *)
(* character makes it end the shell process.                               *)
(***************************************************************************)
C17_NextTokenIsTotal == last_call.out # "Panic"

(***************************************************************************)
(* C18.  A call of next_token at a dot that is followed neither by the     *)
(* platform's separator nor by a second dot reports a malformed relative   *)
(* path and returns None, never a token that starts at the dot.            *)
(***************************************************************************)
C18_LoneDotIsAnError ==
    LET cur == GetOr(lexer.source, last_call.from, ETX)
        peek == GetOr(lexer.source, last_call.from + 1, ETX)
    IN  last_call.out # "none" /\ cur = "." /\ peek \notin {SLASH(target_os), "."} =>
            /\ last_call.out = "None"
            /\ last_call.report.msg = "Unexpected end of path"

(***************************************************************************)
(* C19.  In a chain handed to execute_pipeline the processes are spawned   *)
(* one per statement in source order, no process of the chain is waited on *)
(* before every statement of the chain has its process, the waits come in  *)
(* spawn order, and when execute_pipeline has returned from a chain it     *)
(* spawned processes for, every statement of the chain has a process and   *)
(* every process was waited on.                                            *)
(***************************************************************************)
\* the processes spawned for chain number k
ProcsOf(k) == { p \in 1 .. Len(procs) : procs[p].chain = k }

\* the call of execute_pipeline for chain number k has returned
PipelineReturned(k) ==
    calls[k] = "pipeline" /\ (k < Len(chains) \/ pc \in {"execute", "prompt"})

C19_SpawnAllThenWaitInOrder ==
    \A k \in 1 .. Len(chains) :
        calls[k] = "pipeline" =>
            /\ \A p \in ProcsOf(k) :
                   procs[p].stmt = FirstOf(k) + Cardinality({ q \in ProcsOf(k) : q < p })
            /\ (\E p \in ProcsOf(k) : procs[p].waited) =>
                   Cardinality(ProcsOf(k)) = Len(chains[k])
            /\ \A p, q \in ProcsOf(k) : p < q /\ procs[q].waited => procs[p].waited
            /\ PipelineReturned(k) /\ ProcsOf(k) # {} =>
                   /\ Cardinality(ProcsOf(k)) = Len(chains[k])
                   /\ \A p \in ProcsOf(k) : procs[p].waited

(***************************************************************************)
(* C20.  When the engine is in the wait loop of execute_pipeline it holds  *)
(* no pipe read-end, and every process whose stdout is the write-end of a  *)
(* pipe has a process reading that pipe as its stdin.                      *)
(***************************************************************************)
C20_NoReadEndHeldWhileWaiting ==
    pc = "pipeline_wait" =>
        /\ prev_stdout = 0
        /\ \A p \in 1 .. Len(procs) :
               procs[p].stdout.kind = "pipe_write" =>
                   \E q \in 1 .. Len(procs) :
                       procs[q].stdin = StdioPipeRead(procs[p].stdout.pipe)

(***************************************************************************)
(* C21.  In the Module build_ast returns, a statement whose stdout is      *)
(* PipeToStdin is followed by another statement: the last statement of a   *)
(* Module never pipes, also when the tokens end with a Pipe token.         *)
(***************************************************************************)
C21_LastStatementDoesNotPipe ==
    ModuleBuilt /\ module.stmts # <<>> =>
        module.stmts[Len(module.stmts)].stdout # PipeToStdin

(***************************************************************************)
(* C22.  After the first operational failure in a chain (executable not    *)
(* found, redirect file not opened or created, spawn or wait failed) no    *)
(* further process is spawned, no later chain of the Module is formed or   *)
(* executed, and the processes of the failing chain that had not been      *)
(* waited on when the failure happened are not waited on.                  *)
(***************************************************************************)
\* an operational failure has happened on the line
Failed == failure # NoFailure

C22_NothingFollowsAFailure ==
    Failed =>
        /\ Len(procs) = failure.procs
        /\ Len(chains) = failure.chain
        /\ Len(calls) = failure.chain
        /\ \A b \in 1 .. Len(builtin_runs) : builtin_runs[b].chain < failure.chain
        /\ \A p \in 1 .. Len(procs) :
               /\ procs[p].chain <= failure.chain
               /\ procs[p].chain = failure.chain /\ failure.kind # "wait_failed" =>
                      ~procs[p].waited
               /\ procs[p].chain = failure.chain /\ procs[p].stmt >= failure.stmt =>
                      ~procs[p].waited

\* the spawn of the second statement of a chain has failed: the process of the
\* first is running, not waited on, and the Module has a later chain
C22_Witness ==
    /\ failure.kind = "spawn_failed"
    /\ failure.stmt = 2
    /\ Len(procs) = 1
    /\ ~procs[1].waited
    /\ iter < Len(module.stmts)

(***************************************************************************)
(* C23.  No step changes the builtin table, and a step changes             *)
(* engine.cur_dir only when it is a run of the builtin cd, as a chain of   *)
(* one statement handed to execute_single, that returns Ok.                *)
(***************************************************************************)
C23_OnlyCdChangesCurDir ==
    [][ /\ engine'.builtins = engine.builtins
        /\ engine'.cur_dir # engine.cur_dir =>
               /\ pc = "single"
               /\ calls[Len(calls)] = "single"
               /\ Len(pipe_chain) = 1
               /\ Text(engine.source, pipe_chain[1].program) = <<"c", "d">>
               /\ Len(builtin_runs') = Len(builtin_runs) + 1
               /\ builtin_runs'[Len(builtin_runs')].name = <<"c", "d">>
               /\ builtin_runs'[Len(builtin_runs')].result = "Ok" ]_vars

\* cd has run and changed the directory, and an external command spawned on
\* the same line has left it as cd set it
C23_Witness ==
    /\ builtin_runs # <<>>
    /\ builtin_runs[Len(builtin_runs)].name = <<"c", "d">>
    /\ builtin_runs[Len(builtin_runs)].result = "Ok"
    /\ engine.cur_dir # start_dir
    /\ procs # <<>>

(***************************************************************************)
(* C24.  After a successful cd, engine.cur_dir designates the working      *)
(* directory of the process: resolved as the prompt's reader and ls        *)
(* resolve it, against that working directory, it names that directory.    *)
(***************************************************************************)
C24_CurDirIsWorkingDirectory ==
    /\ builtin_runs # <<>>
    /\ builtin_runs[Len(builtin_runs)].name = <<"c", "d">>
    /\ builtin_runs[Len(builtin_runs)].result = "Ok"
    => Resolve(cwd, engine.cur_dir) = cwd

(***************************************************************************)
(* C25.  When find_executable fails for a statement, in execute_single or  *)
(* in an iteration of execute_pipeline, no redirect file of the statement  *)
(* has been opened or created and no process has been spawned for it.      *)
(***************************************************************************)
C25_ResolutionComesFirst ==
    failure.kind = "not_found" =>
        /\ Len(files) = failure.files
        /\ Len(procs) = failure.procs
        /\ \A p \in 1 .. Len(procs) : procs[p].stmt # failure.stmt

\* the command of the last statement of a pipe, which redirects its output to
\* a file, is not found, after the first statement was spawned
C25_Witness ==
    /\ failure.kind = "not_found"
    /\ calls[failure.chain] = "pipeline"
    /\ module.stmts[failure.stmt].stdout.kind = "PipeToFile"
    /\ Len(procs) = 1

====
